---------------------------- MODULE Spec2Model ----------------------------
(***************************************************************************)
(* A model of the book service of app/main.py: the Book entity, its three  *)
(* services (BookDisplayer, BookPrinter, BookSerializer) with their        *)
(* strategy registries, and the orchestration loop main().                 *)
(*                                                                         *)
(* A Python str is a sequence of characters; a character is a one-symbol   *)
(* TLA+ string (a code point outside ASCII is written as a "U+XXXX"        *)
(* token).  The console is the sequence of the print() calls made so far,  *)
(* one entry per call.                                                     *)
(***************************************************************************)
EXTENDS Integers, Sequences, FiniteSets, TLC

(***************************************************************************)
(* Bounds of the model.                                                    *)
(***************************************************************************)
MaxContentLen == 2
MaxCmds == 2
MaxConsole == 2
MaxTextLen == 2

(***************************************************************************)
(* String literals of the program.                                         *)
(***************************************************************************)
KeyConsole ==
    <<"c", "o", "n", "s", "o", "l", "e">>

KeyReverse ==
    <<"r", "e", "v", "e", "r", "s", "e">>

KeyJson ==
    <<"j", "s", "o", "n">>

KeyXml ==
    <<"x", "m", "l">>

UnknownDisplayPrefix ==
    <<"U", "n", "k", "n", "o", "w", "n", " ", "d", "i", "s", "p", "l", "a",
      "y", " ", "t", "y", "p", "e", ":", " ">>

UnknownPrintPrefix ==
    <<"U", "n", "k", "n", "o", "w", "n", " ", "p", "r", "i", "n", "t", " ",
      "t", "y", "p", "e", ":", " ">>

UnknownSerializePrefix ==
    <<"U", "n", "k", "n", "o", "w", "n", " ", "s", "e", "r", "i", "a", "l",
      "i", "z", "e", " ", "t", "y", "p", "e", ":", " ">>

PrintingLabel ==
    <<"P", "r", "i", "n", "t", "i", "n", "g", " ", "t", "h", "e", " ", "b",
      "o", "o", "k", ":", " ">>

PrintingReverseLabel ==
    <<"P", "r", "i", "n", "t", "i", "n", "g", " ", "t", "h", "e", " ", "b",
      "o", "o", "k", " ", "i", "n", " ", "r", "e", "v", "e", "r", "s", "e",
      ":", " ">>

Ellipsis ==
    <<".", ".", ".">>

NameTitle ==
    <<"t", "i", "t", "l", "e">>

NameContent ==
    <<"c", "o", "n", "t", "e", "n", "t">>

NameBook ==
    <<"b", "o", "o", "k">>

(***************************************************************************)
(* Inputs that are not literals of the program: keys no registry holds,    *)
(* and the alphabets the books' texts are drawn from.                      *)
(***************************************************************************)
KeyCapConsole ==
    <<"C", "o", "n", "s", "o", "l", "e">>

KeyEmpty ==
    <<>>

Keys ==
    {KeyConsole, KeyReverse, KeyJson, KeyXml, KeyCapConsole, KeyEmpty}

Titles ==
    {<<>>, <<"t">>}

ContentAlphabet ==
    {"a", "b"}

JsonAlphabet ==
    {"n", "\"", "\\", "\n", "U+00E9"}

XmlAlphabet ==
    {"a", "&", "<", ">", "\r", "\f"}

Texts(alphabet, n) ==
    UNION {[1..k -> alphabet] : k \in 0..n}

(***************************************************************************)
(* Python values: None, and a str.                                         *)
(***************************************************************************)
NoneVal ==
    [kind |-> "None", chars |-> <<>>]

Str(s) ==
    [kind |-> "str", chars |-> s]

PyNone ==
    "None"

(***************************************************************************)
(* What a call does: whether it raised (and the ValueError's message), the *)
(* print() calls it made, the value it returned, and the book object it    *)
(* was handed, as the call leaves it.                                      *)
(***************************************************************************)
Returned(writes, value, b) ==
    [raised |-> FALSE, error |-> <<>>, writes |-> writes, value |-> value,
     book |-> b]

Raised(message, b) ==
    [raised |-> TRUE, error |-> message, writes |-> <<>>, value |-> NoneVal,
     book |-> b]

\* s[::-1]
Reverse(s) ==
    [i \in 1..Len(s) |-> s[Len(s) + 1 - i]]

RECURSIVE Flatten(_)
Flatten(parts) ==
    IF parts = <<>> THEN <<>> ELSE Head(parts) \o Flatten(Tail(parts))

\* dict.get(key): the value, or None for a key the dict does not hold.
DictGet(d, key) ==
    IF key \in DOMAIN d THEN d[key] ELSE PyNone

(***************************************************************************)
(* Display responsibility.                                                 *)
(***************************************************************************)
ConsoleDisplayStrategy_display(b) ==
    Returned(<<b.content>>, NoneVal, b)

\* A variant of ReverseDisplayStrategy.display that forgets the slice.
ReverseDisplayStrategy_display_verbatim(b) ==
    Returned(<<b.content>>, NoneVal, b)

ReverseDisplayStrategy_display(b) ==
    Returned(<<Reverse(b.content)>>, NoneVal, b)

\* strategy.display(book): the method of the strategy object's class.
DisplayStrategy_display(strategy, b) ==
    CASE strategy = "ConsoleDisplayStrategy" -> ConsoleDisplayStrategy_display(b)
      [] strategy = "ReverseDisplayStrategy" -> ReverseDisplayStrategy_display(b)

BookDisplayer_init ==
    (KeyConsole :> "ConsoleDisplayStrategy") @@
    (KeyReverse :> "ReverseDisplayStrategy")

BookDisplayer_display(strategies, b, display_type) ==
    LET strategy == DictGet(strategies, display_type)
    IN  IF strategy = PyNone
        THEN Raised(UnknownDisplayPrefix \o display_type, b)
        ELSE DisplayStrategy_display(strategy, b)

(***************************************************************************)
(* Print responsibility.                                                   *)
(***************************************************************************)
\* A variant of ConsolePrintStrategy.print_book with its two print() calls
\* in the other order.
ConsolePrintStrategy_print_book_content_first(b) ==
    Returned(<<b.content, PrintingLabel \o b.title \o Ellipsis>>, NoneVal, b)

ConsolePrintStrategy_print_book(b) ==
    Returned(<<PrintingLabel \o b.title \o Ellipsis, b.content>>, NoneVal, b)

\* A variant of ReversePrintStrategy.print_book that reverses the book's
\* content in place before printing it.
ReversePrintStrategy_print_book_in_place(b) ==
    Returned(<<PrintingReverseLabel \o b.title \o Ellipsis,
               Reverse(b.content)>>, NoneVal,
             [b EXCEPT !.content = Reverse(b.content)])

ReversePrintStrategy_print_book(b) ==
    Returned(<<PrintingReverseLabel \o b.title \o Ellipsis,
               Reverse(b.content)>>, NoneVal, b)

PrintStrategy_print_book(strategy, b) ==
    CASE strategy = "ConsolePrintStrategy" -> ConsolePrintStrategy_print_book(b)
      [] strategy = "ReversePrintStrategy" -> ReversePrintStrategy_print_book(b)

BookPrinter_init ==
    (KeyConsole :> "ConsolePrintStrategy") @@
    (KeyReverse :> "ReversePrintStrategy")

BookPrinter_print(strategies, b, print_type) ==
    LET strategy == DictGet(strategies, print_type)
    IN  IF strategy = PyNone
        THEN Raised(UnknownPrintPrefix \o print_type, b)
        ELSE PrintStrategy_print_book(strategy, b)

(***************************************************************************)
(* Serialization responsibility.                                           *)
(*                                                                         *)
(* json.dumps (ensure_ascii left at its default, True) writes a str        *)
(* between double quotes with the quote and the backslash escaped by a     *)
(* backslash, the control characters with a short escape written so, and   *)
(* every other character outside the printable ASCII range as \uXXXX.      *)
(***************************************************************************)
\* A variant of the escaping that leaves the backslash as it is.
json_escape_char_plain_backslash(c) ==
    CASE c = "\"" -> <<"\\", "\"">>
      [] c = "\n" -> <<"\\", "n">>
      [] c = "\r" -> <<"\\", "r">>
      [] c = "\f" -> <<"\\", "f">>
      [] c = "\t" -> <<"\\", "t">>
      [] c = "U+00E9" -> <<"\\", "u", "0", "0", "e", "9">>
      [] OTHER -> <<c>>

json_escape_char(c) ==
    CASE c = "\"" -> <<"\\", "\"">>
      [] c = "\\" -> <<"\\", "\\">>
      [] c = "\n" -> <<"\\", "n">>
      [] c = "\r" -> <<"\\", "r">>
      [] c = "\f" -> <<"\\", "f">>
      [] c = "\t" -> <<"\\", "t">>
      [] c = "U+00E9" -> <<"\\", "u", "0", "0", "e", "9">>
      [] OTHER -> <<c>>

json_encode_str(s) ==
    <<"\"">> \o Flatten([i \in 1..Len(s) |-> json_escape_char(s[i])]) \o <<"\"">>

RECURSIVE json_join(_)
json_join(members) ==
    IF members = <<>> THEN <<>>
    ELSE IF Len(members) = 1 THEN Head(members)
    ELSE Head(members) \o <<",", " ">> \o json_join(Tail(members))

\* json.dumps of a dict whose keys and values are strs: the items in
\* insertion order, separated by ", ", key and value separated by ": ".
json_dumps(items) ==
    <<"{">> \o
    json_join([i \in 1..Len(items) |->
        json_encode_str(items[i][1]) \o <<":", " ">> \o
        json_encode_str(items[i][2])]) \o
    <<"}">>

JsonSerializeStrategy_serialize(b) ==
    Returned(<<>>,
             Str(json_dumps(<<<<NameTitle, b.title>>,
                              <<NameContent, b.content>>>>)),
             b)

\* A variant of the escaping that leaves the ampersand as it is.
xml_escape_char_plain_amp(c) ==
    CASE c = "<" -> <<"&", "l", "t", ";">>
      [] c = ">" -> <<"&", "g", "t", ";">>
      [] OTHER -> <<c>>

\* ElementTree's _escape_cdata.
xml_escape_char(c) ==
    CASE c = "&" -> <<"&", "a", "m", "p", ";">>
      [] c = "<" -> <<"&", "l", "t", ";">>
      [] c = ">" -> <<"&", "g", "t", ";">>
      [] OTHER -> <<c>>

xml_escape_cdata(text) ==
    Flatten([i \in 1..Len(text) |-> xml_escape_char(text[i])])

\* ET.Element(tag) / ET.SubElement(parent, tag): text is None until set.
Element(tag, text, children) ==
    [tag |-> tag, text |-> text, children |-> children]

\* "if text": None and the empty str are both false.
Truthy(v) ==
    v.kind = "str" /\ v.chars # <<>>

\* ET.tostring(root, encoding="unicode"): an element with neither text nor
\* children is written in the short form "<tag />".
RECURSIVE xml_tostring(_)
xml_tostring(elem) ==
    IF Truthy(elem.text) \/ Len(elem.children) > 0
    THEN <<"<">> \o elem.tag \o <<">">> \o
         (IF Truthy(elem.text) THEN xml_escape_cdata(elem.text.chars)
          ELSE <<>>) \o
         Flatten([i \in 1..Len(elem.children) |->
                    xml_tostring(elem.children[i])]) \o
         <<"<", "/">> \o elem.tag \o <<">">>
    ELSE <<"<">> \o elem.tag \o <<" ", "/", ">">>

XmlSerializeStrategy_serialize(b) ==
    LET title_el == Element(NameTitle, Str(b.title), <<>>)
        content_el == Element(NameContent, Str(b.content), <<>>)
        root == Element(NameBook, NoneVal, <<title_el, content_el>>)
    IN  Returned(<<>>, Str(xml_tostring(root)), b)

SerializeStrategy_serialize(strategy, b) ==
    CASE strategy = "JsonSerializeStrategy" -> JsonSerializeStrategy_serialize(b)
      [] strategy = "XmlSerializeStrategy" -> XmlSerializeStrategy_serialize(b)

BookSerializer_init ==
    (KeyJson :> "JsonSerializeStrategy") @@
    (KeyXml :> "XmlSerializeStrategy")

\* A variant of BookSerializer.serialize that kept BookPrinter's message.
BookSerializer_serialize_print_message(strategies, b, serialize_type) ==
    LET strategy == DictGet(strategies, serialize_type)
    IN  IF strategy = PyNone
        THEN Raised(UnknownPrintPrefix \o serialize_type, b)
        ELSE SerializeStrategy_serialize(strategy, b)

BookSerializer_serialize(strategies, b, serialize_type) ==
    LET strategy == DictGet(strategies, serialize_type)
    IN  IF strategy = PyNone
        THEN Raised(UnknownSerializePrefix \o serialize_type, b)
        ELSE SerializeStrategy_serialize(strategy, b)

(***************************************************************************)
(* The state: one Book object (its two fields and the registries of its    *)
(* three services), the console, and the call in progress or last made.    *)
(***************************************************************************)
VARIABLES
    book,         \* the Book object's title and content
    book0,        \* the title and content handed to Book.__init__
    displayer,    \* book._displayer._strategies
    printer,      \* book._printer._strategies
    serializer,   \* book._serializer._strategies
    console,      \* the print() calls so far, oldest first
    pre_console,  \* the console as the last call from outside found it
    call,         \* the last direct call of a Book method, and how it ended
    commands,     \* main's argument
    pc,           \* main: the index of the pair the loop takes next
    mstatus,      \* main: "idle", "running", "returned", "raised", or "over"
                  \* once a later direct call has superseded its outcome
    result,       \* main: the value returned
    merror,       \* main: the message of the ValueError that left it
    executed,     \* main: the indices of the pairs the loop has taken
    parsed        \* what a reader made of the last serialization

vars ==
    <<book, book0, displayer, printer, serializer, console, pre_console,
      call, commands, pc, mstatus, result, merror, executed, parsed>>

NoCall ==
    [op |-> "none", key |-> <<>>, raised |-> FALSE, error |-> <<>>,
     value |-> NoneVal]

Unparsed ==
    [status |-> "unparsed"]

\* Book.display, Book.print_book, Book.serialize: the facade methods.
Book_display(b, display_type) ==
    BookDisplayer_display(displayer, b, display_type)

Book_print_book(b, print_type) ==
    BookPrinter_print(printer, b, print_type)

Book_serialize(b, serialize_type) ==
    BookSerializer_serialize(serializer, b, serialize_type)

\* A variant of the loop's turn whose "serialize" branch lacks the return.
main_iteration_no_return(b, cmd, method_type) ==
    IF cmd = "display"
    THEN LET e == Book_display(b, method_type)
         IN  [ctl |-> IF e.raised THEN "raise" ELSE "next", effect |-> e]
    ELSE IF cmd = "print"
    THEN LET e == Book_print_book(b, method_type)
         IN  [ctl |-> IF e.raised THEN "raise" ELSE "next", effect |-> e]
    ELSE IF cmd = "serialize"
    THEN LET e == Book_serialize(b, method_type)
         IN  [ctl |-> IF e.raised THEN "raise" ELSE "next", effect |-> e]
    ELSE [ctl |-> "next", effect |-> Returned(<<>>, NoneVal, b)]

\* A variant of the loop's turn that catches the ValueError and goes on.
main_iteration_swallow(b, cmd, method_type) ==
    IF cmd = "display"
    THEN [ctl |-> "next", effect |-> Book_display(b, method_type)]
    ELSE IF cmd = "print"
    THEN [ctl |-> "next", effect |-> Book_print_book(b, method_type)]
    ELSE IF cmd = "serialize"
    THEN LET e == Book_serialize(b, method_type)
         IN  [ctl |-> IF e.raised THEN "next" ELSE "return", effect |-> e]
    ELSE [ctl |-> "next", effect |-> Returned(<<>>, NoneVal, b)]

\* A variant of the loop's turn with a final else that rejects the action.
main_iteration_strict(b, cmd, method_type) ==
    IF cmd = "display"
    THEN LET e == Book_display(b, method_type)
         IN  [ctl |-> IF e.raised THEN "raise" ELSE "next", effect |-> e]
    ELSE IF cmd = "print"
    THEN LET e == Book_print_book(b, method_type)
         IN  [ctl |-> IF e.raised THEN "raise" ELSE "next", effect |-> e]
    ELSE IF cmd = "serialize"
    THEN LET e == Book_serialize(b, method_type)
         IN  [ctl |-> IF e.raised THEN "raise" ELSE "return", effect |-> e]
    ELSE [ctl |-> "raise",
          effect |-> Raised(<<"U", "n", "k", "n", "o", "w", "n">>, b)]

\* A variant of the end of main that returns the empty str.
main_fall_through_empty ==
    Str(<<>>)

(***************************************************************************)
(* main: one turn of the for loop on the pair (cmd, method_type).  ctl     *)
(* says how the turn ends: "next" (the loop goes on), "return" (main       *)
(* returns effect.value) or "raise" (the ValueError leaves main).          *)
(***************************************************************************)
main_iteration(b, cmd, method_type) ==
    IF cmd = "display"
    THEN LET e == Book_display(b, method_type)
         IN  [ctl |-> IF e.raised THEN "raise" ELSE "next", effect |-> e]
    ELSE IF cmd = "print"
    THEN LET e == Book_print_book(b, method_type)
         IN  [ctl |-> IF e.raised THEN "raise" ELSE "next", effect |-> e]
    ELSE IF cmd = "serialize"
    THEN LET e == Book_serialize(b, method_type)
         IN  [ctl |-> IF e.raised THEN "raise" ELSE "return", effect |-> e]
    ELSE [ctl |-> "next", effect |-> Returned(<<>>, NoneVal, b)]

\* The loop ran out of pairs: the function ends without a return statement.
main_fall_through ==
    NoneVal

(***************************************************************************)
(* Inputs of main: (action, key) pairs with registered keys, with keys     *)
(* the action's registry does not hold, and with actions main does not     *)
(* know.                                                                   *)
(***************************************************************************)
CmdPairs ==
    {<<"display", KeyConsole>>, <<"display", KeyJson>>,
     <<"print", KeyReverse>>, <<"print", KeyCapConsole>>,
     <<"serialize", KeyJson>>, <<"serialize", KeyXml>>,
     <<"serialize", KeyConsole>>,
     <<"save", KeyConsole>>, <<"Display", KeyEmpty>>}

CommandLists ==
    UNION {[1..k -> CmdPairs] : k \in 0..MaxCmds}

Books ==
    {[title |-> t, content |-> c] :
        t \in Titles,
        c \in Texts(ContentAlphabet, MaxContentLen)}

\* Book(title, content), before any call.
Constructed(b) ==
    /\ book = b
    /\ book0 = b
    /\ displayer = BookDisplayer_init
    /\ printer = BookPrinter_init
    /\ serializer = BookSerializer_init
    /\ console = <<>>
    /\ pre_console = <<>>
    /\ call = NoCall
    /\ commands = <<>>
    /\ pc = 1
    /\ mstatus = "idle"
    /\ result = NoneVal
    /\ merror = <<>>
    /\ executed = <<>>
    /\ parsed = Unparsed

Init ==
    \E b \in Books : Constructed(b)

\* A direct call of a Book method from outside main, with what it did.
DirectCall(op, key, e) ==
    /\ mstatus # "running"
    /\ Len(console) < MaxConsole
    /\ pre_console' = console
    /\ console' = console \o e.writes
    /\ book' = e.book
    /\ call' = [op |-> op, key |-> key, raised |-> e.raised,
                error |-> e.error, value |-> e.value]
    /\ commands' = <<>>
    /\ pc' = 1
    /\ mstatus' = IF mstatus = "idle" THEN "idle" ELSE "over"
    /\ result' = NoneVal
    /\ merror' = <<>>
    /\ executed' = <<>>
    /\ parsed' = Unparsed
    /\ UNCHANGED <<book0, displayer, printer, serializer>>

CallDisplay(key) ==
    DirectCall("display", key, Book_display(book, key))

CallPrintBook(key) ==
    DirectCall("print", key, Book_print_book(book, key))

CallSerialize(key) ==
    DirectCall("serialize", key, Book_serialize(book, key))

\* main(book, cmds) is called: once on a book, as the program's entry point
\* does, with direct calls of the book's methods before and after it.
CallMain(cmds) ==
    /\ mstatus = "idle"
    /\ Len(console) < MaxConsole
    /\ pre_console' = console
    /\ call' = NoCall
    /\ commands' = cmds
    /\ pc' = 1
    /\ mstatus' = "running"
    /\ result' = NoneVal
    /\ merror' = <<>>
    /\ executed' = <<>>
    /\ parsed' = Unparsed
    /\ UNCHANGED <<book, book0, displayer, printer, serializer, console>>

\* main takes the next pair of the list, or finds the list exhausted.
MainStep ==
    /\ mstatus = "running"
    /\ IF pc > Len(commands)
       THEN /\ mstatus' = "returned"
            /\ result' = main_fall_through
            /\ UNCHANGED <<book, console, pc, merror, executed>>
       ELSE LET r == main_iteration(book, commands[pc][1], commands[pc][2])
            IN  /\ executed' = Append(executed, pc)
                /\ console' = console \o r.effect.writes
                /\ book' = r.effect.book
                /\ mstatus' = CASE r.ctl = "raise" -> "raised"
                                [] r.ctl = "return" -> "returned"
                                [] r.ctl = "next" -> "running"
                /\ merror' = IF r.ctl = "raise" THEN r.effect.error ELSE merror
                /\ result' = IF r.ctl = "return" THEN r.effect.value ELSE result
                /\ pc' = IF r.ctl = "next" THEN pc + 1 ELSE pc
    /\ UNCHANGED <<book0, displayer, printer, serializer, pre_console, call,
                   commands, parsed>>

Next ==
    \/ \E key \in Keys : CallDisplay(key)
    \/ \E key \in Keys : CallPrintBook(key)
    \/ \E key \in Keys : CallSerialize(key)
    \/ \E cmds \in CommandLists : CallMain(cmds)
    \/ MainStep

Spec ==
    Init /\ [][Next]_vars

(***************************************************************************)
(* The reader's side of serialization: what a JSON parser (json.loads) and *)
(* an XML 1.0 parser (ET.fromstring) make of a document.  A reader's       *)
(* answer is [status |-> "error"] for a text that is no document.          *)
(***************************************************************************)
ReadError ==
    [status |-> "error"]

JsonWhitespace ==
    {" ", "\t", "\n", "\r"}

\* Characters a JSON string may not hold unescaped.
JsonControl ==
    {"\t", "\n", "\r", "\f"}

RECURSIVE json_skip_ws(_, _)
json_skip_ws(doc, i) ==
    IF i <= Len(doc) /\ doc[i] \in JsonWhitespace
    THEN json_skip_ws(doc, i + 1)
    ELSE i

\* The code point four hexadecimal digits name.
json_code_point(hex) ==
    CASE hex = <<"0", "0", "e", "9">> -> "U+00E9"
      [] hex = <<"0", "0", "E", "9">> -> "U+00E9"
      [] OTHER -> "U+????"

\* The string whose opening quote ends before position i: its text, and the
\* position after its closing quote.
RECURSIVE json_scan_string(_, _, _)
json_scan_string(doc, i, acc) ==
    IF i > Len(doc) THEN [ok |-> FALSE]
    ELSE IF doc[i] = "\"" THEN [ok |-> TRUE, text |-> acc, next |-> i + 1]
    ELSE IF doc[i] \in JsonControl THEN [ok |-> FALSE]
    ELSE IF doc[i] # "\\" THEN json_scan_string(doc, i + 1, Append(acc, doc[i]))
    ELSE IF i + 1 > Len(doc) THEN [ok |-> FALSE]
    ELSE LET e == doc[i + 1]
         IN  CASE e \in {"\"", "\\", "/"} ->
                    json_scan_string(doc, i + 2, Append(acc, e))
               [] e = "n" -> json_scan_string(doc, i + 2, Append(acc, "\n"))
               [] e = "r" -> json_scan_string(doc, i + 2, Append(acc, "\r"))
               [] e = "t" -> json_scan_string(doc, i + 2, Append(acc, "\t"))
               [] e = "f" -> json_scan_string(doc, i + 2, Append(acc, "\f"))
               [] e = "u" ->
                    IF i + 5 > Len(doc) THEN [ok |-> FALSE]
                    ELSE json_scan_string(doc, i + 6,
                            Append(acc,
                                   json_code_point(SubSeq(doc, i + 2, i + 5))))
               [] OTHER -> [ok |-> FALSE]

\* The members of an object from position i, which follows "{" or ",".
RECURSIVE json_scan_members(_, _, _)
json_scan_members(doc, i, acc) ==
    LET k0 == json_skip_ws(doc, i)
    IN  IF k0 > Len(doc) \/ doc[k0] # "\"" THEN ReadError
        ELSE LET key == json_scan_string(doc, k0 + 1, <<>>)
             IN  IF ~key.ok THEN ReadError
                 ELSE LET c == json_skip_ws(doc, key.next)
                          v0 == json_skip_ws(doc, c + 1)
                      IN  IF c > Len(doc) \/ doc[c] # ":" THEN ReadError
                          ELSE IF v0 > Len(doc) \/ doc[v0] # "\"" THEN ReadError
                          ELSE LET val == json_scan_string(doc, v0 + 1, <<>>)
                               IN  IF ~val.ok THEN ReadError
                                   ELSE LET e == json_skip_ws(doc, val.next)
                                            got == Append(acc,
                                                     <<key.text, val.text>>)
                                        IN  IF e > Len(doc) THEN ReadError
                                            ELSE IF doc[e] = ","
                                            THEN json_scan_members(doc, e + 1,
                                                                   got)
                                            ELSE IF doc[e] = "}"
                                                    /\ json_skip_ws(doc, e + 1)
                                                       > Len(doc)
                                            THEN [status |-> "ok",
                                                  members |-> got]
                                            ELSE ReadError

\* json.loads of an object of strings: its members in document order.
json_loads(doc) ==
    LET s == json_skip_ws(doc, 1)
    IN  IF s > Len(doc) \/ doc[s] # "{" THEN ReadError
        ELSE LET m == json_skip_ws(doc, s + 1)
             IN  IF m <= Len(doc) /\ doc[m] = "}"
                 THEN IF json_skip_ws(doc, m + 1) > Len(doc)
                      THEN [status |-> "ok", members |-> <<>>]
                      ELSE ReadError
                 ELSE json_scan_members(doc, s + 1, <<>>)

\* XML 1.0, 2.2: the characters a document may hold.
XmlChar(c) ==
    c # "\f"

XmlNameEnd ==
    {" ", "/", ">"}

\* Character data from position i up to the next "<": entity references
\* replaced, a carriage return (with the line feed after it, if any) read
\* as one line feed (XML 1.0, 2.11).
RECURSIVE xml_scan_text(_, _, _)
xml_scan_text(doc, i, acc) ==
    IF i > Len(doc) THEN [ok |-> FALSE]
    ELSE IF doc[i] = "<" THEN [ok |-> TRUE, text |-> acc, next |-> i]
    ELSE IF ~XmlChar(doc[i]) THEN [ok |-> FALSE]
    ELSE IF doc[i] = "\r"
    THEN xml_scan_text(doc,
                       IF i + 1 <= Len(doc) /\ doc[i + 1] = "\n"
                       THEN i + 2 ELSE i + 1,
                       Append(acc, "\n"))
    ELSE IF doc[i] # "&" THEN xml_scan_text(doc, i + 1, Append(acc, doc[i]))
    ELSE IF i + 4 <= Len(doc) /\ SubSeq(doc, i, i + 4) = <<"&", "a", "m", "p", ";">>
    THEN xml_scan_text(doc, i + 5, Append(acc, "&"))
    ELSE IF i + 3 <= Len(doc) /\ SubSeq(doc, i, i + 3) = <<"&", "l", "t", ";">>
    THEN xml_scan_text(doc, i + 4, Append(acc, "<"))
    ELSE IF i + 3 <= Len(doc) /\ SubSeq(doc, i, i + 3) = <<"&", "g", "t", ";">>
    THEN xml_scan_text(doc, i + 4, Append(acc, ">"))
    ELSE [ok |-> FALSE]

\* The name that starts at position i.
RECURSIVE xml_scan_name(_, _, _)
xml_scan_name(doc, i, acc) ==
    IF i > Len(doc) THEN [ok |-> FALSE]
    ELSE IF doc[i] \in XmlNameEnd
    THEN [ok |-> acc # <<>>, name |-> acc, next |-> i]
    ELSE IF doc[i] \in {"<", "&"} \/ ~XmlChar(doc[i]) THEN [ok |-> FALSE]
    ELSE xml_scan_name(doc, i + 1, Append(acc, doc[i]))

RECURSIVE xml_skip_spaces(_, _)
xml_skip_spaces(doc, i) ==
    IF i <= Len(doc) /\ doc[i] = " " THEN xml_skip_spaces(doc, i + 1) ELSE i

\* The element whose "<" is at position i, and the position after it.  An
\* element's text is None when no character data precedes its first child
\* or its end tag, as ElementTree has it.
RECURSIVE xml_scan_element(_, _)
RECURSIVE xml_scan_children(_, _, _, _, _)
xml_scan_element(doc, i) ==
    IF i > Len(doc) \/ doc[i] # "<" THEN [ok |-> FALSE]
    ELSE LET n == xml_scan_name(doc, i + 1, <<>>)
         IN  IF ~n.ok THEN [ok |-> FALSE]
             ELSE LET j == xml_skip_spaces(doc, n.next)
                  IN  IF j > Len(doc) THEN [ok |-> FALSE]
                      ELSE IF doc[j] = "/"
                      THEN IF j + 1 <= Len(doc) /\ doc[j + 1] = ">"
                           THEN [ok |-> TRUE,
                                 elem |-> Element(n.name, NoneVal, <<>>),
                                 next |-> j + 2]
                           ELSE [ok |-> FALSE]
                      ELSE IF doc[j] # ">" THEN [ok |-> FALSE]
                      ELSE LET t == xml_scan_text(doc, j + 1, <<>>)
                           IN  IF ~t.ok THEN [ok |-> FALSE]
                               ELSE xml_scan_children(
                                        doc, t.next, n.name,
                                        IF t.text = <<>> THEN NoneVal
                                        ELSE Str(t.text),
                                        <<>>)

\* The children of the element <tag> from position i (a "<"), up to and
\* with its end tag; the text after a child is the child's tail.
xml_scan_children(doc, i, tag, text, acc) ==
    IF i + 1 > Len(doc) THEN [ok |-> FALSE]
    ELSE IF doc[i + 1] = "/"
    THEN LET n == xml_scan_name(doc, i + 2, <<>>)
         IN  IF ~n.ok THEN [ok |-> FALSE]
             ELSE LET j == xml_skip_spaces(doc, n.next)
                  IN  IF n.name = tag /\ j <= Len(doc) /\ doc[j] = ">"
                      THEN [ok |-> TRUE, elem |-> Element(tag, text, acc),
                            next |-> j + 1]
                      ELSE [ok |-> FALSE]
    ELSE LET c == xml_scan_element(doc, i)
         IN  IF ~c.ok THEN [ok |-> FALSE]
             ELSE LET tail == xml_scan_text(doc, c.next, <<>>)
                  IN  IF ~tail.ok THEN [ok |-> FALSE]
                      ELSE xml_scan_children(doc, tail.next, tag, text,
                                             Append(acc, c.elem))

\* ET.fromstring: the root element of a document that is one element.
xml_fromstring(doc) ==
    LET r == xml_scan_element(doc, 1)
    IN  IF r.ok /\ r.next = Len(doc) + 1
        THEN [status |-> "ok", root |-> r.elem]
        ELSE ReadError

(***************************************************************************)
(* Serialization on its own: a book whose texts hold the characters the    *)
(* format treats specially is serialized, and the document is read back.   *)
(***************************************************************************)
JsonBooks ==
    {[title |-> t, content |-> c] :
        t \in Texts(JsonAlphabet, MaxTextLen),
        c \in Texts(JsonAlphabet, MaxTextLen)}

XmlBooks ==
    {[title |-> t, content |-> c] :
        t \in Texts(XmlAlphabet, MaxTextLen),
        c \in Texts(XmlAlphabet, MaxTextLen)}

\* The caller hands the str that serialize returned to a reader.
ReadBack(key, reader_answer) ==
    /\ call.op = "serialize"
    /\ call.key = key
    /\ ~call.raised
    /\ call.value.kind = "str"
    /\ parsed = Unparsed
    /\ parsed' = reader_answer
    /\ UNCHANGED <<book, book0, displayer, printer, serializer, console,
                   pre_console, call, commands, pc, mstatus, result, merror,
                   executed>>

ReadJson ==
    ReadBack(KeyJson, json_loads(call.value.chars))

ReadXml ==
    ReadBack(KeyXml, xml_fromstring(call.value.chars))

InitJson ==
    \E b \in JsonBooks : Constructed(b)

NextJson ==
    \/ CallSerialize(KeyJson)
    \/ ReadJson

SpecJson ==
    InitJson /\ [][NextJson]_vars

InitXml ==
    \E b \in XmlBooks : Constructed(b)

NextXml ==
    \/ CallSerialize(KeyXml)
    \/ ReadXml

SpecXml ==
    InitXml /\ [][NextXml]_vars

(***************************************************************************)
(* Vocabulary of the properties.                                           *)
(***************************************************************************)
DisplayKeys ==
    {KeyConsole, KeyReverse}

PrintKeys ==
    {KeyConsole, KeyReverse}

SerializeKeys ==
    {KeyJson, KeyXml}

KnownActions ==
    {"display", "print", "serialize"}

\* A text read backwards: its last character first.
RECURSIVE Backwards(_)
Backwards(s) ==
    IF s = <<>> THEN <<>> ELSE Append(Backwards(Tail(s)), Head(s))

\* The console writes the specification gives a pair of main's list.
WritesOf(b, pair) ==
    CASE pair = <<"display", KeyConsole>> -> <<b.content>>
      [] pair = <<"display", KeyReverse>> -> <<Backwards(b.content)>>
      [] pair = <<"print", KeyConsole>> ->
            <<PrintingLabel \o b.title \o Ellipsis, b.content>>
      [] pair = <<"print", KeyReverse>> ->
            <<PrintingReverseLabel \o b.title \o Ellipsis,
              Backwards(b.content)>>
      [] OTHER -> <<>>

\* The pair raises: a known action with a key its registry does not hold.
UnknownKey(pair) ==
    \/ pair[1] = "display" /\ pair[2] \notin DisplayKeys
    \/ pair[1] = "print" /\ pair[2] \notin PrintKeys
    \/ pair[1] = "serialize" /\ pair[2] \notin SerializeKeys

\* The message of the error the pair raises.
MessageOf(pair) ==
    CASE pair[1] = "display" -> UnknownDisplayPrefix \o pair[2]
      [] pair[1] = "print" -> UnknownPrintPrefix \o pair[2]
      [] pair[1] = "serialize" -> UnknownSerializePrefix \o pair[2]

\* The indices 1, 2, ..., n in order.
UpTo(n) ==
    [i \in 1..n |-> i]

MainCalled ==
    mstatus \in {"running", "returned", "raised"}

MainOver ==
    mstatus \in {"returned", "raised"}

\* The writes of the pairs main's loop has taken, in the list's order.
WritesOfExecuted ==
    Flatten([i \in 1..Len(executed) |-> WritesOf(book0, commands[i])])

(***************************************************************************)
(* C1.  main takes the pairs strictly in list order, each once, and on the *)
(* first pair whose action is "serialize" with a registered key it returns *)
(* that serialization at once: the pairs before it have been taken in      *)
(* order, and no pair after it is ever taken, whatever its key.            *)
(***************************************************************************)
C1_SerializeReturnsAtOnce ==
    MainCalled =>
        /\ executed = UpTo(Len(executed))
        /\ Len(executed) <= Len(commands)
        /\ \A k \in 1..Len(executed) :
              (commands[k][1] = "serialize" /\ commands[k][2] \in SerializeKeys)
              => /\ mstatus = "returned"
                 /\ Len(executed) = k
                 /\ result = Book_serialize(book0, commands[k][2]).value
                 /\ result.kind = "str"
                 /\ console = pre_console \o
                        Flatten([i \in 1..(k - 1) |->
                                    WritesOf(book0, commands[i])])

C1_Witness ==
    /\ mstatus = "returned"
    /\ commands = <<<<"serialize", KeyJson>>, <<"display", KeyJson>>>>
    /\ executed = <<1>>
    /\ result.kind = "str"
    /\ console = pre_console

(***************************************************************************)
(* C3.  When a pair of main's list raises the unknown-key error, that      *)
(* error leaves main with its message unchanged, main returns no value,    *)
(* and no pair after the failing one is taken: no further console output   *)
(* and no later serialization.                                             *)
(***************************************************************************)
C3_ErrorLeavesMain ==
    MainCalled =>
        /\ \A k \in 1..Len(executed) :
              UnknownKey(commands[k])
              => /\ mstatus = "raised"
                 /\ Len(executed) = k
                 /\ merror = MessageOf(commands[k])
                 /\ result = NoneVal
                 /\ console = pre_console \o
                        Flatten([i \in 1..(k - 1) |->
                                    WritesOf(book0, commands[i])])
        /\ mstatus = "raised" =>
              /\ Len(executed) >= 1
              /\ UnknownKey(commands[Len(executed)])

C3_Witness ==
    /\ mstatus = "raised"
    /\ commands = <<<<"print", KeyCapConsole>>, <<"serialize", KeyXml>>>>
    /\ executed = <<1>>
    /\ merror = UnknownPrintPrefix \o KeyCapConsole
    /\ console = pre_console

(***************************************************************************)
(* C4.  On a list with no "serialize" action whose keys are all            *)
(* registered, main takes every pair and returns None, which is not the    *)
(* empty str; main returns a str only when it reached a "serialize" pair.  *)
(***************************************************************************)
C4_NoSerializeReturnsNone ==
    /\ NoneVal # Str(<<>>)
    /\ MainOver =>
        /\ ( /\ \A i \in 1..Len(commands) : commands[i][1] # "serialize"
             /\ \A i \in 1..Len(commands) : ~UnknownKey(commands[i]) )
           => /\ mstatus = "returned"
              /\ result = NoneVal
              /\ executed = UpTo(Len(commands))
        /\ (mstatus = "returned" /\ result.kind = "str")
           => /\ Len(executed) >= 1
              /\ commands[Len(executed)][1] = "serialize"

C4_Witness ==
    /\ mstatus = "returned"
    /\ commands = <<<<"print", KeyReverse>>, <<"display", KeyConsole>>>>
    /\ executed = <<1, 2>>
    /\ result = NoneVal

(***************************************************************************)
(* C10.  A pair whose action is none of "display", "print", "serialize"    *)
(* is skipped by main whatever its key: it writes nothing, raises nothing, *)
(* does not end the loop, and main goes on with the next pair; a list      *)
(* made only of such pairs returns None and leaves the console as it was.  *)
(***************************************************************************)
C10_UnknownActionSkipped ==
    MainCalled =>
        /\ console = pre_console \o WritesOfExecuted
        /\ \A k \in 1..Len(executed) :
              commands[k][1] \notin KnownActions
              => /\ WritesOf(book0, commands[k]) = <<>>
                 /\ pc > k
                 /\ Len(executed) = k => mstatus \in {"running", "returned"}
        /\ (MainOver /\ \A i \in 1..Len(commands) :
                            commands[i][1] \notin KnownActions)
           => /\ mstatus = "returned"
              /\ result = NoneVal
              /\ console = pre_console
              /\ executed = UpTo(Len(commands))

C10_Witness ==
    /\ mstatus = "returned"
    /\ commands = <<<<"save", KeyConsole>>, <<"Display", KeyEmpty>>>>
    /\ executed = <<1, 2>>
    /\ result = NoneVal
    /\ console = pre_console

(***************************************************************************)
(* C2.  For each capability, a call with a key that is not exactly one of  *)
(* its registered keys (a differently-cased key, the empty str and a key   *)
(* of another capability included) raises the error whose message is       *)
(* "Unknown display type: ", "Unknown print type: " or "Unknown serialize  *)
(* type: " followed by the key as given, writes nothing to the console and *)
(* returns no value; a call with a registered key raises nothing.          *)
(***************************************************************************)
C2_UnknownKeyRaises ==
    /\ call.op = "display" =>
          IF call.key \in DisplayKeys THEN ~call.raised
          ELSE /\ call.raised
               /\ call.error = UnknownDisplayPrefix \o call.key
               /\ console = pre_console
               /\ call.value = NoneVal
    /\ call.op = "print" =>
          IF call.key \in PrintKeys THEN ~call.raised
          ELSE /\ call.raised
               /\ call.error = UnknownPrintPrefix \o call.key
               /\ console = pre_console
               /\ call.value = NoneVal
    /\ call.op = "serialize" =>
          IF call.key \in SerializeKeys THEN ~call.raised
          ELSE /\ call.raised
               /\ call.error = UnknownSerializePrefix \o call.key
               /\ console = pre_console
               /\ call.value = NoneVal

C2_Witness ==
    /\ call.op = "serialize"
    /\ call.key = KeyConsole
    /\ call.raised
    /\ call.error = UnknownSerializePrefix \o KeyConsole
    /\ Len(console) = 1
    /\ console = pre_console

(***************************************************************************)
(* C7.  display and print with key "reverse" write the content read        *)
(* backwards, character by character: the last character first, the same   *)
(* length, an empty line for the empty content; with key "console" they    *)
(* write the content as it is.  Reading the reversed line backwards gives  *)
(* the content again.                                                      *)
(***************************************************************************)
C7_ReverseWritesBackwards ==
    (call.op \in {"display", "print"} /\ ~call.raised) =>
        /\ Len(console) > Len(pre_console)
        /\ LET line == console[Len(console)]
               content == book0.content
           IN  IF call.key = KeyReverse
               THEN /\ Len(line) = Len(content)
                    /\ \A i \in 1..Len(line) :
                          line[i] = content[Len(content) + 1 - i]
                    /\ Backwards(line) = content
               ELSE line = content

C7_Witness ==
    /\ call.op = "display"
    /\ call.key = KeyReverse
    /\ ~call.raised
    /\ book0.content = <<"a", "b">>
    /\ console[Len(console)] = <<"b", "a">>

(***************************************************************************)
(* C8.  After any sequence of display, print, serialize and main calls,    *)
(* with registered or unknown keys, returning or raising, the book's title *)
(* and content are the values given at construction and each of the three  *)
(* registries maps its two original keys to the same operations.           *)
(***************************************************************************)
C8_BookAndRegistriesUnchanged ==
    /\ book = book0
    /\ displayer = (KeyConsole :> "ConsoleDisplayStrategy") @@
                   (KeyReverse :> "ReverseDisplayStrategy")
    /\ DOMAIN displayer = {KeyConsole, KeyReverse}
    /\ printer = (KeyConsole :> "ConsolePrintStrategy") @@
                 (KeyReverse :> "ReversePrintStrategy")
    /\ DOMAIN printer = {KeyConsole, KeyReverse}
    /\ serializer = (KeyJson :> "JsonSerializeStrategy") @@
                    (KeyXml :> "XmlSerializeStrategy")
    /\ DOMAIN serializer = {KeyJson, KeyXml}

C8_Witness ==
    /\ mstatus = "over"
    /\ call.op = "print"
    /\ call.key = KeyReverse
    /\ Len(console) >= 3
    /\ book.content = <<"a", "b">>
    /\ console[Len(console)] = <<"b", "a">>

C6_JsonRoundTrip ==
    (call.op = "serialize" /\ call.key = KeyJson) =>
        /\ ~call.raised
        /\ call.value.kind = "str"
        /\ console = pre_console
        /\ LET doc == call.value.chars
           IN  /\ doc[1] = "{"
               /\ doc[Len(doc)] = "}"
               /\ \A i \in 1..Len(doc) : doc[i] \notin JsonControl \cup {"U+00E9"}
        /\ parsed # Unparsed =>
              /\ parsed.status = "ok"
              /\ parsed.members = <<<<NameTitle, book0.title>>,
                                    <<NameContent, book0.content>>>>

C6_Witness ==
    /\ parsed # Unparsed
    /\ parsed.status = "ok"
    /\ book0.title = <<"\\", "n">>
    /\ book0.content = <<"\"", "U+00E9">>
    /\ parsed.members[1][2] = <<"\\", "n">>
    /\ parsed.members[2][2] = <<"\"", "U+00E9">>

(***************************************************************************)
(* C5.  Vocabulary: E, the text with &, < and > replaced by their          *)
(* entities; the document the specification gives for a book.              *)
(***************************************************************************)
RECURSIVE EscapeReserved(_)
EscapeReserved(text) ==
    IF text = <<>> THEN <<>>
    ELSE (CASE Head(text) = "&" -> <<"&", "a", "m", "p", ";">>
            [] Head(text) = "<" -> <<"&", "l", "t", ";">>
            [] Head(text) = ">" -> <<"&", "g", "t", ";">>
            [] OTHER -> <<Head(text)>>) \o EscapeReserved(Tail(text))

OpenTag(name) ==
    <<"<">> \o name \o <<">">>

CloseTag(name) ==
    <<"<", "/">> \o name \o <<">">>

EmptyTag(name) ==
    <<"<">> \o name \o <<" ", "/", ">">>

\* <name>E(text)</name>
FullField(name, text) ==
    OpenTag(name) \o EscapeReserved(text) \o CloseTag(name)

XmlCallMade ==
    call.op = "serialize" /\ call.key = KeyXml

\* The text of the root's i-th child, as the reader found it.
ChildText(i) ==
    parsed.root.children[i].text

\* A text that a conformant parser gives back as it was written.
ReadsBackUnchanged(text) ==
    /\ text # <<>>
    /\ \A i \in 1..Len(text) : text[i] \notin {"\r", "\f"}

(***************************************************************************)
(* C5, as the specification states it.  For every book, the empty title    *)
(* and content included, serialize with key "xml" returns exactly          *)
(* <book><title>E(title)</title><content>E(content)</content></book>, and  *)
(* parsing that output back recovers child text equal to the book's title  *)
(* and content.                                                            *)
(***************************************************************************)
C5_XmlExactForEveryBook ==
    XmlCallMade =>
        /\ ~call.raised
        /\ call.value = Str(OpenTag(NameBook) \o
                            FullField(NameTitle, book0.title) \o
                            FullField(NameContent, book0.content) \o
                            CloseTag(NameBook))
        /\ parsed # Unparsed =>
              /\ parsed.status = "ok"
              /\ Len(parsed.root.children) = 2
              /\ ChildText(1) = Str(book0.title)
              /\ ChildText(2) = Str(book0.content)

XmlField(name, text) ==
    IF text = <<>> THEN EmptyTag(name) ELSE FullField(name, text)

\* What a parser gives for a field written from text: a carriage return,
\* with the line feed directly after it if there is one, is one line feed.
RECURSIVE LineEndsRead(_)
LineEndsRead(text) ==
    IF text = <<>> THEN <<>>
    ELSE IF Head(text) # "\r" THEN <<Head(text)>> \o LineEndsRead(Tail(text))
    ELSE IF Len(text) >= 2 /\ text[2] = "\n"
    THEN <<"\n">> \o LineEndsRead(Tail(Tail(text)))
    ELSE <<"\n">> \o LineEndsRead(Tail(text))

XmlTextRead(text) ==
    IF text = <<>> THEN NoneVal ELSE Str(LineEndsRead(text))

(***************************************************************************)
(* C5, amended.  serialize with key "xml" returns <book>, the title field, *)
(* the content field, </book>, with no declaration and nothing between the *)
(* tags, where a non-empty field is <title>E(title)</title> (or            *)
(* <content>E(content)</content>) and an empty one is the self-closing     *)
(* <title /> (or <content />).  Parsing the output back recovers child     *)
(* text equal to the title and the content when both are non-empty and     *)
(* hold neither a carriage return nor a character XML 1.0 forbids; an      *)
(* empty field reads back as no text (None), a carriage return (with the   *)
(* line feed directly after it, if any) as one line feed, and a forbidden  *)
(* character (form feed) leaves no parseable document.                     *)
(***************************************************************************)
C5_XmlExactWhenNonEmpty ==
    XmlCallMade =>
        /\ ~call.raised
        /\ call.value = Str(OpenTag(NameBook) \o
                            XmlField(NameTitle, book0.title) \o
                            XmlField(NameContent, book0.content) \o
                            CloseTag(NameBook))
        /\ console = pre_console
        /\ (parsed # Unparsed /\ ReadsBackUnchanged(book0.title)
                              /\ ReadsBackUnchanged(book0.content)) =>
              /\ parsed.status = "ok"
              /\ parsed.root.tag = NameBook
              /\ Len(parsed.root.children) = 2
              /\ parsed.root.children[1].tag = NameTitle
              /\ parsed.root.children[2].tag = NameContent
              /\ ChildText(1) = Str(book0.title)
              /\ ChildText(2) = Str(book0.content)
        /\ parsed # Unparsed =>
              IF \E i \in 1..Len(book0.title) : book0.title[i] = "\f"
                 THEN parsed.status = "error"
              ELSE IF \E i \in 1..Len(book0.content) : book0.content[i] = "\f"
                 THEN parsed.status = "error"
              ELSE /\ parsed.status = "ok"
                   /\ Len(parsed.root.children) = 2
                   /\ ChildText(1) = XmlTextRead(book0.title)
                   /\ ChildText(2) = XmlTextRead(book0.content)

C5_Witness ==
    /\ XmlCallMade
    /\ parsed # Unparsed
    /\ parsed.status = "ok"
    /\ book0.title = <<"&", "<">>
    /\ book0.content = <<">", "a">>
    /\ call.value.chars =
          <<"<", "b", "o", "o", "k", ">", "<", "t", "i", "t", "l", "e", ">",
            "&", "a", "m", "p", ";", "&", "l", "t", ";",
            "<", "/", "t", "i", "t", "l", "e", ">",
            "<", "c", "o", "n", "t", "e", "n", "t", ">", "&", "g", "t", ";",
            "a", "<", "/", "c", "o", "n", "t", "e", "n", "t", ">",
            "<", "/", "b", "o", "o", "k", ">">>
    /\ ChildText(1) = Str(<<"&", "<">>)
    /\ ChildText(2) = Str(<<">", "a">>)

====
